---- MODULE Spec2Model ----
(***************************************************************************)
(* obsi-css-diff: the interactive version picker (obsi_diff/cli.py), its   *)
(* three source adapters (obsi_diff/sources/*.py), the background loader   *)
(* and the caller's branching on the session result (obsi_diff/__main__).  *)
(*                                                                         *)
(* Strings are sequences of one-character strings, so that substring       *)
(* search, lower-casing, the regular expressions and the tag normalisation *)
(* are computed as the code computes them.                                 *)
(***************************************************************************)
EXTENDS Integers, Sequences, FiniteSets, TLC

(***************************************************************************)
(* Bounds of the model                                                     *)
(***************************************************************************)
\* longest search query the user types
MaxQuery == 2
\* longest changelog feed the table is built from
MaxEntries == 3

(***************************************************************************)
(* Strings                                                                 *)
(***************************************************************************)
Digits == <<"0", "1", "2", "3", "4", "5", "6", "7", "8", "9">>
Uppers == <<"A", "B", "C", "D", "E", "F", "G", "H", "I", "J", "K", "L", "M",
            "N", "O", "P", "Q", "R", "S", "T", "U", "V", "W", "X", "Y", "Z">>
Lowers == <<"a", "b", "c", "d", "e", "f", "g", "h", "i", "j", "k", "l", "m",
            "n", "o", "p", "q", "r", "s", "t", "u", "v", "w", "x", "y", "z">>

IsDigit(c) == \E i \in 1..Len(Digits) : Digits[i] = c

DigitVal(c) == (CHOOSE i \in 1..Len(Digits) : Digits[i] = c) - 1

\* str.lower() on one character
LowerChar(c) ==
    IF \E i \in 1..Len(Uppers) : Uppers[i] = c
    THEN Lowers[CHOOSE i \in 1..Len(Uppers) : Uppers[i] = c]
    ELSE c

\* str.lower()
Lower(s) == [i \in 1..Len(s) |-> LowerChar(s[i])]

\* Python's "needle in hay" on strings
Contains(hay, needle) ==
    \E i \in 0..(Len(hay) - Len(needle)) :
        SubSeq(hay, i + 1, i + Len(needle)) = needle

\* str.startswith
StartsWith(s, p) == Len(s) >= Len(p) /\ SubSeq(s, 1, Len(p)) = p

\* s[:n]
Prefix(s, n) == SubSeq(s, 1, IF Len(s) < n THEN Len(s) ELSE n)

\* str.strip() for the blank character
RECURSIVE StripLeft(_)
StripLeft(s) == IF s # <<>> /\ Head(s) = " " THEN StripLeft(Tail(s)) ELSE s

RECURSIVE StripRight(_)
StripRight(s) ==
    IF s # <<>> /\ s[Len(s)] = " " THEN StripRight(SubSeq(s, 1, Len(s) - 1)) ELSE s

Strip(s) == StripRight(StripLeft(s))

\* " ".join(parts)
RECURSIVE JoinSpace(_)
JoinSpace(parts) ==
    IF parts = <<>> THEN <<>>
    ELSE IF Len(parts) = 1 THEN parts[1]
    ELSE parts[1] \o <<" ">> \o JoinSpace(Tail(parts))

\* str.replace(pat, "") : every non-overlapping occurrence, left to right
RECURSIVE RemoveAll(_, _)
RemoveAll(s, pat) ==
    IF s = <<>> THEN <<>>
    ELSE IF StartsWith(s, pat) THEN RemoveAll(SubSeq(s, Len(pat) + 1, Len(s)), pat)
    ELSE <<Head(s)>> \o RemoveAll(Tail(s), pat)

\* str.split(ch)[0]
RECURSIVE BeforeFirst(_, _)
BeforeFirst(s, ch) ==
    IF s = <<>> \/ Head(s) = ch THEN <<>>
    ELSE <<Head(s)>> \o BeforeFirst(Tail(s), ch)

\* length of the run of digits that starts at position i (0 if none)
RECURSIVE DigitRun(_, _)
DigitRun(s, i) ==
    IF i <= Len(s) /\ IsDigit(s[i]) THEN 1 + DigitRun(s, i + 1) ELSE 0

\* int() of a string of digits
RECURSIVE ToInt(_)
ToInt(ds) ==
    IF ds = <<>> THEN 0
    ELSE 10 * ToInt(SubSeq(ds, 1, Len(ds) - 1)) + DigitVal(ds[Len(ds)])

\* str() of a natural number
RECURSIVE IntToStr(_)
IntToStr(n) ==
    IF n < 10 THEN <<Digits[n + 1]>>
    ELSE IntToStr(n \div 10) \o <<Digits[(n % 10) + 1]>>

\* [int(p) for p in re.findall(r"\d+", s)] scanning from position i
RECURSIVE FindAllIntsFrom(_, _)
FindAllIntsFrom(s, i) ==
    IF i > Len(s) THEN <<>>
    ELSE LET n == DigitRun(s, i) IN
         IF n = 0 THEN FindAllIntsFrom(s, i + 1)
         ELSE <<ToInt(SubSeq(s, i, i + n - 1))>> \o FindAllIntsFrom(s, i + n)

FindAllInts(s) == FindAllIntsFrom(s, 1)

\* length of the match of \d+\.\d+\.\d+ anchored at position i (0 if none);
\* the digit runs are greedy and no shorter run can be followed by a dot
VersionMatchAt(s, i) ==
    LET a == DigitRun(s, i)
        b == DigitRun(s, i + a + 1)
        c == DigitRun(s, i + a + 1 + b + 1)
    IN  IF /\ a > 0
           /\ i + a <= Len(s) /\ s[i + a] = "."
           /\ b > 0
           /\ i + a + 1 + b <= Len(s) /\ s[i + a + 1 + b] = "."
           /\ c > 0
        THEN a + 1 + b + 1 + c
        ELSE 0

\* re.search(r"(\d+\.\d+\.\d+)", s).group(1), the empty string when no match
SearchVersion(s) ==
    IF \E i \in 1..Len(s) : VersionMatchAt(s, i) > 0
    THEN LET i == CHOOSE k \in 1..Len(s) :
                      /\ VersionMatchAt(s, k) > 0
                      /\ \A j \in 1..(k - 1) : VersionMatchAt(s, j) = 0
         IN  SubSeq(s, i, i + VersionMatchAt(s, i) - 1)
    ELSE <<>>

sElectron == <<"e", "l", "e", "c", "t", "r", "o", "n", " ">>

\* length of the match of "Electron v?(\d+\.\d+\.\d+)", re.IGNORECASE, anchored
\* at position i, as <<start of group 1, length of group 1>>; <<0, 0>> if none
ElectronMatchAt(s, i) ==
    IF Lower(SubSeq(s, i, i + Len(sElectron) - 1)) = sElectron
    THEN LET j == i + Len(sElectron)
             k == IF j <= Len(s) /\ LowerChar(s[j]) = "v" THEN j + 1 ELSE j
         IN  IF VersionMatchAt(s, k) > 0 THEN <<k, VersionMatchAt(s, k)>>
             ELSE IF VersionMatchAt(s, j) > 0 THEN <<j, VersionMatchAt(s, j)>>
             ELSE <<0, 0>>
    ELSE <<0, 0>>

\* re.search(r"Electron v?(\d+\.\d+\.\d+)", s, re.IGNORECASE).group(1); the
\* empty string stands for None (group 1 is never empty)
SearchElectron(s) ==
    IF \E i \in 1..Len(s) : ElectronMatchAt(s, i)[1] > 0
    THEN LET i == CHOOSE k \in 1..Len(s) :
                      /\ ElectronMatchAt(s, k)[1] > 0
                      /\ \A j \in 1..(k - 1) : ElectronMatchAt(s, j)[1] = 0
             m == ElectronMatchAt(s, i)
         IN  SubSeq(s, m[1], m[1] + m[2] - 1)
    ELSE <<>>

\* Python's list < list on lists of integers
RECURSIVE IntListLess(_, _)
IntListLess(a, b) ==
    IF b = <<>> THEN FALSE
    ELSE IF a = <<>> THEN TRUE
    ELSE IF Head(a) # Head(b) THEN Head(a) < Head(b)
    ELSE IntListLess(Tail(a), Tail(b))

\* Python's str < str on strings of digits, "-" and ":" (timestamps)
CharOrd(c) == IF IsDigit(c) THEN 48 + DigitVal(c)
              ELSE IF c = "-" THEN 45
              ELSE IF c = ":" THEN 58
              ELSE 84

RECURSIVE StrLess(_, _)
StrLess(a, b) ==
    IF b = <<>> THEN FALSE
    ELSE IF a = <<>> THEN TRUE
    ELSE IF Head(a) # Head(b) THEN CharOrd(Head(a)) < CharOrd(Head(b))
    ELSE StrLess(Tail(a), Tail(b))

(***************************************************************************)
(* Data of the outside world that the model draws from.  A feed entry is   *)
(* [title, content, updated]; a registry result is [name, last_updated]    *)
(* (the empty string stands for a null timestamp); the engine table is a   *)
(* JSON object, kept as a list of <<key, value>> pairs.                    *)
(***************************************************************************)
v120 == <<"1", ".", "2", ".", "0">>
v110 == <<"1", ".", "1", ".", "0">>
sDesktop == <<"D", "e", "s", "k", "t", "o", "p">>
sMobile == <<"M", "o", "b", "i", "l", "e">>
sInsider == <<"(", "I", "n", "s", "i", "d", "e", "r", ")">>
sEarlyAccess == <<"(", "E", "a", "r", "l", "y", " ", "a", "c", "c", "e", "s", "s", ")">>
sFound == <<"F", "o", "u", "n", "d">>
sMissing == <<"M", "i", "s", "s", "i", "n", "g">>
sNA == <<"N", "/", "A">>
sDashes == <<"-", "-", "-">>
sDefaultElectron == <<"1", "3", ".", "0", ".", "0">>
sE20 == <<"2", "0", ".", "0", ".", "0">>
sE25 == <<"2", "5", ".", "0", ".", "0">>
sChromium104 == <<"1", "0", "4">>
sVersionPrefix == <<"v", "e", "r", "s", "i", "o", "n", "-">>
sLatest == <<"l", "a", "t", "e", "s", "t">>
sDevelop == <<"d", "e", "v", "e", "l", "o", "p">>
sAmd64 == <<"a", "m", "d", "6", "4">>
sArm64 == <<"a", "r", "m", "6", "4">>
sLs == <<"-", "l", "s">>
sError == <<"E", "r", "r", "o", "r">>
sErrorColon == sError \o <<":", " ">>
\* the messages of the exceptions that reach fetch_all_data's handler
sEACCES == <<"E", "A", "C", "C", "E", "S">>
sENOSPC == <<"E", "N", "O", "S", "P", "C">>
sClosed == <<"c", "l", "o", "s", "e", "d">>

dMar == <<"2", "0", "2", "4", "-", "0", "3", "-", "0", "1", "T">>
dFeb == <<"2", "0", "2", "4", "-", "0", "2", "-", "0", "1", "T">>

FeedA ==
    << [title |-> v120 \o <<" ">> \o sDesktop,
        content |-> <<"E", "L", "E", "C", "T", "R", "O", "N", " ", "v">> \o sE20,
        updated |-> dMar],
       [title |-> <<"R", "o", "a", "d", "m", "a", "p", " ", "1", ".", "2">>,
        content |-> <<>>, updated |-> dMar],
       [title |-> v120 \o <<" ">> \o sMobile, content |-> <<>>, updated |-> dMar],
       [title |-> v110 \o <<" ">> \o sDesktop \o <<" ">> \o sInsider,
        content |-> <<>>, updated |-> dFeb],
       [title |-> v110 \o <<" ">> \o sDesktop, content |-> <<>>, updated |-> dFeb] >>

\* the entries the feeds of the table are made of: two versions that order
\* differently as numbers and as text, both platforms, and an early-access
\* build of a version that also has a public one
v1100 == <<"1", ".", "1", "0", ".", "0">>
EntryPool ==
    {FeedA[1], FeedA[3],
     [title |-> v1100 \o <<" ">> \o sDesktop \o <<" ">> \o sInsider,
      content |-> <<"e", "l", "e", "c", "t", "r", "o", "n", " ">> \o sE25,
      updated |-> dMar],
     [title |-> v1100 \o <<" ">> \o sDesktop, content |-> <<>>, updated |-> dFeb]}

\* every feed of at most n entries of the pool, repetitions included
Feeds(n) == UNION {[1..k -> EntryPool] : k \in 0..n}

\* pages of the tag listing, each followed through its "next" link
TagsA ==
    << << [name |-> v120 \o sLs \o <<"5">>, last_updated |-> <<"3">>],
          [name |-> sVersionPrefix \o v120, last_updated |-> <<>>],
          [name |-> v120, last_updated |-> <<"2">>] >>,
       << [name |-> sLatest, last_updated |-> <<"4">>],
          [name |-> <<"0", ".", "9", ".", "0">>, last_updated |-> <<"1">>] >> >>

\* a listing that holds noise tags only
TagsB == << << [name |-> sLatest, last_updated |-> <<"4">>],
               [name |-> sDevelop, last_updated |-> <<"1">>] >> >>

EMapA == << <<sE20, sChromium104>> >>

\* what one network request can bring: a failure or a payload.  A body that
\* is no feed makes feedparser.parse raise nothing and give no entries
RssResponses == {[ok |-> FALSE, body |-> <<>>], [ok |-> TRUE, body |-> FeedA],
                 [ok |-> TRUE, body |-> <<>>]}
DockerResponses == {[ok |-> FALSE, body |-> <<>>], [ok |-> TRUE, body |-> TagsA],
                    [ok |-> TRUE, body |-> TagsB]}
ElectronResponses == {[ok |-> FALSE, body |-> <<>>], [ok |-> TRUE, body |-> EMapA]}

(***************************************************************************)
(* RSSSource.get_data: the normalisation of the feed                       *)
(***************************************************************************)
\* the record appended for one entry whose title holds a version
RssRecord(entry) ==
    [version |-> SearchVersion(entry.title),
     type |-> IF Contains(entry.title, sDesktop) THEN sDesktop ELSE sMobile,
     date |-> entry.updated,
     electron |-> SearchElectron(entry.content),
     title |-> entry.title]

\* the loop over feed.entries: entries without a version are skipped
RECURSIVE RssParse(_)
RssParse(entries) ==
    IF entries = <<>> THEN <<>>
    ELSE IF SearchVersion(Head(entries).title) = <<>> THEN RssParse(Tail(entries))
    ELSE <<RssRecord(Head(entries))>> \o RssParse(Tail(entries))

RssSortKey(x) == FindAllInts(x.version)

\* list.sort(key=RssSortKey), stable: x goes behind every element not above it
RECURSIVE RssInsert(_, _)
RssInsert(sorted, x) ==
    IF sorted = <<>> THEN <<x>>
    ELSE IF IntListLess(RssSortKey(x), RssSortKey(Head(sorted)))
         THEN <<x>> \o sorted
         ELSE <<Head(sorted)>> \o RssInsert(Tail(sorted), x)

RECURSIVE RssSortFrom(_, _)
RssSortFrom(done, rest) ==
    IF rest = <<>> THEN done
    ELSE RssSortFrom(RssInsert(done, Head(rest)), Tail(rest))

RssSort(versions) == RssSortFrom(<<>>, versions)

\* a faulty Backfill: the last Electron version seen is not carried along
RECURSIVE Backfill_default_only(_, _)
Backfill_default_only(versions, last_electron) ==
    IF versions = <<>> THEN <<>>
    ELSE LET v == Head(versions) IN
         IF v.electron # <<>>
         THEN <<v>> \o Backfill_default_only(Tail(versions), last_electron)
         ELSE <<[v EXCEPT !.electron = last_electron]>>
              \o Backfill_default_only(Tail(versions), last_electron)

\* the loop that fills the missing Electron versions, oldest first
RECURSIVE Backfill(_, _)
Backfill(versions, last_electron) ==
    IF versions = <<>> THEN <<>>
    ELSE LET v == Head(versions) IN
         IF v.electron # <<>>
         THEN <<v>> \o Backfill(Tail(versions), v.electron)
         ELSE <<[v EXCEPT !.electron = last_electron]>>
              \o Backfill(Tail(versions), last_electron)

\* list.reverse()
RECURSIVE Reverse(_)
Reverse(s) == IF s = <<>> THEN <<>> ELSE Reverse(Tail(s)) \o <<Head(s)>>

\* what get_data writes to the snapshot and returns for a parsed feed
RssNormalize(entries) ==
    Reverse(Backfill(RssSort(RssParse(entries)), sDefaultElectron))

(***************************************************************************)
(* DockerSource.get_data: the normalisation of the tag listing             *)
(***************************************************************************)
Noise == {sLatest, sDevelop, sAmd64, sArm64, sLs}

CleanVersion(tag_name) == BeforeFirst(RemoveAll(tag_name, sVersionPrefix), "-")

\* a tag is kept unless it is noise, has no number or a leading number below 1
TagKept(tag_name) ==
    /\ ~ \E x \in Noise : Contains(tag_name, x)
    /\ LET v_parts == FindAllInts(CleanVersion(tag_name))
       IN  v_parts # <<>> /\ ~ (v_parts[1] < 1)

\* the loop over one page's results
RECURSIVE DockerPage(_)
DockerPage(results) ==
    IF results = <<>> THEN <<>>
    ELSE IF TagKept(Head(results).name)
         THEN <<[version |-> CleanVersion(Head(results).name),
                 tag |-> Head(results).name,
                 last_updated |-> Head(results).last_updated]>>
              \o DockerPage(Tail(results))
         ELSE DockerPage(Tail(results))

\* the loop over the pages, following "next" until it is null
RECURSIVE DockerPages(_)
DockerPages(pages) ==
    IF pages = <<>> THEN <<>>
    ELSE DockerPage(Head(pages)) \o DockerPages(Tail(pages))

\* versions.sort(key=last_updated or "", reverse=True), stable
RECURSIVE DockerInsert(_, _)
DockerInsert(sorted, x) ==
    IF sorted = <<>> THEN <<x>>
    ELSE IF StrLess(Head(sorted).last_updated, x.last_updated)
         THEN <<x>> \o sorted
         ELSE <<Head(sorted)>> \o DockerInsert(Tail(sorted), x)

RECURSIVE DockerSortFrom(_, _)
DockerSortFrom(done, rest) ==
    IF rest = <<>> THEN done
    ELSE DockerSortFrom(DockerInsert(done, Head(rest)), Tail(rest))

\* what get_data returns for a fetched listing (written when not empty)
DockerNormalize(pages) == DockerSortFrom(<<>>, DockerPages(pages))

(***************************************************************************)
(* ObsiVerPicker.update_table: reconciliation, filter, sort and rendering  *)
(***************************************************************************)
\* "v in docker_map", docker_map being keyed by the tags' versions
InDockerMap(docker, v) == \E i \in 1..Len(docker) : docker[i].version = v

\* docker_map[v]: building the dict, a later record replaces an earlier one
DockerMapGet(docker, v) ==
    docker[CHOOSE i \in 1..Len(docker) :
               /\ docker[i].version = v
               /\ \A j \in (i + 1)..Len(docker) : docker[j].version # v]

\* electron_map.get(el_v, "---")
ElectronMapGet(electron, el_v) ==
    IF \E i \in 1..Len(electron) : electron[i][1] = el_v
    THEN electron[CHOOSE i \in 1..Len(electron) :
                      /\ electron[i][1] = el_v
                      /\ \A j \in (i + 1)..Len(electron) : electron[j][1] # el_v][2]
    ELSE sDashes

IsEarly(rss) == Contains(rss.title, sEarlyAccess) \/ Contains(rss.title, sInsider)

HasDocker(raw, rss) == InDockerMap(raw.docker, rss.version) /\ rss.type = sDesktop

\* a faulty Stat: the platform is not looked at
Stat_any_platform(raw, rss) ==
    IF InDockerMap(raw.docker, rss.version) THEN sFound
    ELSE IF rss.type = sDesktop THEN sMissing ELSE sNA

Stat(raw, rss) ==
    IF HasDocker(raw, rss) THEN sFound
    ELSE IF rss.type = sDesktop THEN sMissing ELSE sNA

SearchableText(raw, rss) ==
    Lower(JoinSpace(<<rss.version, rss.type, Stat(raw, rss), rss.date, rss.electron,
                      ElectronMapGet(raw.electron, rss.electron)>>))

\* the condition of the first "continue"
FilteredOut(raw, rss, sm, se, fo) ==
    \/ ~sm /\ rss.type = sMobile
    \/ ~se /\ IsEarly(rss)
    \/ fo /\ ~HasDocker(raw, rss)

\* the condition of the second "continue"
QueryMismatch(raw, rss, q) ==
    q # <<>> /\ ~Contains(SearchableText(raw, rss), Lower(q))

\* a faulty SeenKey: the date is part of the key
SeenKey_with_date(rss) == rss.version \o <<"|", "|">> \o rss.type \o rss.date

SeenKey(rss) == rss.version \o <<"|", "|">> \o rss.type

\* the loop over raw_data["rss"]: filter, then query, then the seen set
RECURSIVE FilterLoop(_, _, _, _, _, _, _)
FilterLoop(raw, rest, seen, sm, se, fo, q) ==
    IF rest = <<>> THEN <<>>
    ELSE LET rss == Head(rest) IN
         IF FilteredOut(raw, rss, sm, se, fo) \/ QueryMismatch(raw, rss, q)
            \/ SeenKey(rss) \in seen
         THEN FilterLoop(raw, Tail(rest), seen, sm, se, fo, q)
         ELSE <<[rss |-> rss, has_d |-> HasDocker(raw, rss), stat |-> Stat(raw, rss),
                 el_v |-> rss.electron,
                 cr_v |-> ElectronMapGet(raw.electron, rss.electron)]>>
              \o FilterLoop(raw, Tail(rest), seen \cup {SeenKey(rss)}, sm, se, fo, q)

\* [-x for x in v_parts]
NegParts(item) ==
    LET v_parts == FindAllInts(item.rss.version)
    IN  [i \in 1..Len(v_parts) |-> 0 - v_parts[i]]

Prio(item) == IF item.has_d THEN 0 ELSE IF item.rss.type = sMobile THEN 1 ELSE 2

\* sort_key(a) < sort_key(b)
SortKeyLess(a, b, sp) ==
    IF sp /\ Prio(a) # Prio(b) THEN Prio(a) < Prio(b)
    ELSE IntListLess(NegParts(a), NegParts(b))

\* sorted(filtered, key=sort_key), stable
RECURSIVE TableInsert(_, _, _)
TableInsert(sorted, x, sp) ==
    IF sorted = <<>> THEN <<x>>
    ELSE IF SortKeyLess(x, Head(sorted), sp) THEN <<x>> \o sorted
    ELSE <<Head(sorted)>> \o TableInsert(Tail(sorted), x, sp)

RECURSIVE TableSortFrom(_, _, _)
TableSortFrom(done, rest, sp) ==
    IF rest = <<>> THEN done
    ELSE TableSortFrom(TableInsert(done, Head(rest), sp), Tail(rest), sp)

FormatVer(v) == IF \E i \in 1..Len(v) : IsDigit(v[i]) THEN <<"v">> \o v ELSE v

\* the cells of one added row, as plain text:
\* ID, Version, Type, Released, Docker Status, Electron, Chromium
RenderRow(idx, item) ==
    <<IntToStr(idx), item.rss.version, item.rss.type, Prefix(item.rss.date, 10),
      item.stat, FormatVer(item.el_v), FormatVer(item.cr_v)>>

\* the rows of the table after update_table ran on loaded data
UpdateTableRows(raw, sm, se, fo, sp, q) ==
    LET sorted == TableSortFrom(<<>>, FilterLoop(raw, raw.rss, {}, sm, se, fo, q), sp)
    IN  [i \in 1..Len(sorted) |-> RenderRow(i - 1, sorted[i])]

(***************************************************************************)
(* State                                                                   *)
(***************************************************************************)
VARIABLES
    force_refresh,      \* ObsiVerPicker.force_refresh
    cache,              \* the three snapshot files under .obsidian_cache
    wpc,                \* where the worker thread stands in fetch_all_data
    data,               \* fetch_all_data's dict, as far as it is built
    crashed,            \* the process was killed
    screen_stack,       \* App.screen_stack
    raw_data,           \* ObsiVerPicker.raw_data
    search_query,       \* ObsiVerPicker.search_query (and the Input's value)
    show_mobile,        \* ObsiVerPicker.show_mobile
    show_early_access,  \* ObsiVerPicker.show_early_access
    found_only,         \* ObsiVerPicker.found_only
    sort_by_priority,   \* ObsiVerPicker.sort_by_priority
    search_visible,     \* #search-container has the class -visible
    focus,              \* the focused widget of the main screen
    table,              \* the DataTable's rows
    cursor_row,         \* DataTable.cursor_row
    mode_bar,           \* what #mode-bar displays
    confirm,            \* the open ConfirmScreen and its callback's closure
    notice,             \* the last notification
    exited,             \* App.exit was called
    return_value,       \* what run_tui returns
    caller              \* the branch interact took on the result

worker_vars == <<force_refresh, cache, wpc, data, crashed>>
filter_vars == <<search_query, show_mobile, show_early_access, found_only,
                 sort_by_priority>>
view_vars == <<screen_stack, raw_data, search_visible, focus, table, cursor_row,
               mode_bar, confirm, notice>>
exit_vars == <<exited, return_value, caller>>
vars == <<worker_vars, filter_vars, view_vars, exit_vars>>

Adapters == {"rss", "docker", "electron"}

\* the keys the user types into the search box
QueryChars == {"q", "m"}

\* a snapshot file: absent, a complete JSON document, not JSON (json.loads
\* raises JSONDecodeError), not readable (read_text raises OSError), or cut
\* short by a write that did not finish
Absent == [st |-> "absent", data |-> <<>>]
Corrupt == [st |-> "corrupt", data |-> <<>>]
Unreadable == [st |-> "unreadable", data |-> <<>>]
Partial == [st |-> "partial", data |-> <<>>]
Snapshot(d) == [st |-> "ok", data |-> d]

\* what an earlier run left in the snapshots
CachedData == [rss |-> RssNormalize(FeedA), docker |-> DockerNormalize(TagsA),
               electron |-> EMapA]

FileStates(a) == {Absent, Corrupt, Unreadable, Snapshot(CachedData[a])}

\* Python values of App.return_value: None, a str, the selection dict
NoneValue == [t |-> "None", s |-> <<>>, version |-> <<>>, tag |-> <<>>]
StrValue(s) == [t |-> "str", s |-> s, version |-> <<>>, tag |-> <<>>]
DictValue(v, tag) == [t |-> "dict", s |-> <<>>, version |-> v, tag |-> tag]

NoConfirm == [open |-> FALSE, v_str |-> <<>>, tag |-> <<>>]
NoBar == [shown |-> FALSE, is_s |-> FALSE, m |-> TRUE, e |-> TRUE, q |-> <<>>]
EmptyRawData == [loaded |-> FALSE, rss |-> <<>>, docker |-> <<>>, electron |-> <<>>]

Top == screen_stack[Len(screen_stack)]

\* the mode of the session
Mode ==
    IF exited THEN "Done"
    ELSE IF Top = "loading" THEN "Loading"
    ELSE IF Top = "confirm" THEN "Confirming"
    ELSE IF search_visible THEN "Searching"
    ELSE "Browsing"

\* the session's own fields after __init__, compose and on_mount
InitView ==
    /\ crashed = FALSE
    /\ screen_stack = <<"main", "loading">>
    /\ raw_data = EmptyRawData
    /\ search_query = <<>>
    /\ show_mobile = TRUE
    /\ show_early_access = TRUE
    /\ found_only = FALSE
    /\ sort_by_priority = TRUE
    /\ search_visible = FALSE
    /\ focus = "none"
    /\ table = <<>>
    /\ cursor_row = 0
    /\ mode_bar = NoBar
    /\ confirm = NoConfirm
    /\ notice = <<>>
    /\ exited = FALSE
    /\ return_value = NoneValue
    /\ caller = "running"

\* the state after __init__, compose and on_mount: the loading screen is
\* pushed and the worker is started
InitSession ==
    /\ wpc = "rss"
    /\ data = [rss |-> <<>>, docker |-> <<>>, electron |-> <<>>]
    /\ InitView

\* every combination of states of the three snapshots
AllCaches == [rss : FileStates("rss"), docker : FileStates("docker"),
              electron : FileStates("electron")]

\* a first run, and a run over one intact and two damaged snapshots
SomeCaches ==
    {[rss |-> Absent, docker |-> Absent, electron |-> Absent],
     [rss |-> Snapshot(CachedData.rss), docker |-> Corrupt, electron |-> Unreadable]}

Init ==
    /\ force_refresh \in BOOLEAN
    /\ cache \in SomeCaches
    /\ InitSession

\* the loader over every combination of snapshots
InitLoader ==
    /\ force_refresh \in BOOLEAN
    /\ cache \in AllCaches
    /\ InitSession

(***************************************************************************)
(* The background loader: fetch_all_data and the adapters' get_data        *)
(***************************************************************************)
Running == ~crashed

\* App.exit(result)
Exit(result) == exited' = TRUE /\ return_value' = result

\* the handler of fetch_all_data: self.exit(result=f"Error: {e}")
LoaderRaise(e) ==
    /\ Exit(StrValue(sErrorColon \o e))
    /\ wpc' = "done"
    /\ UNCHANGED <<force_refresh, crashed, filter_vars, view_vars, caller>>

\* "if not force and self.CACHE_FILE.exists()"
TryCache(a) == ~force_refresh /\ cache[a].st # "absent"

WorkerStep(next_pc) ==
    /\ wpc' = next_pc
    /\ UNCHANGED <<force_refresh, crashed, filter_vars, view_vars, exit_vars>>

\* RSSSource.get_data up to the network request: the snapshot is returned,
\* OSError and JSONDecodeError are passed over
rss_get_data_cache ==
    /\ Running /\ wpc = "rss"
    /\ IF TryCache("rss") /\ cache.rss.st = "ok"
       THEN data' = [data EXCEPT !.rss = cache.rss.data] /\ WorkerStep("docker")
       ELSE data' = data /\ WorkerStep("rss_fetch")
    /\ cache' = cache

\* the request and the parse of the feed; a failure returns []
rss_fetch(responses) ==
    /\ Running /\ wpc = "rss_fetch"
    /\ \E r \in responses :
          IF r.ok
          THEN data' = [data EXCEPT !.rss = RssNormalize(r.body)]
               /\ WorkerStep("rss_write")
          ELSE data' = [data EXCEPT !.rss = <<>>] /\ WorkerStep("docker")
    /\ cache' = cache

rss_get_data_fetch == rss_fetch(RssResponses)

\* CACHE_FILE.write_text opens the file, which truncates it, or raises OSError,
\* which nothing in get_data catches
rss_get_data_write ==
    /\ Running /\ wpc = "rss_write"
    /\ \/ cache' = [cache EXCEPT !.rss = Partial] /\ data' = data
          /\ WorkerStep("rss_writing")
       \/ LoaderRaise(sENOSPC) /\ UNCHANGED <<cache, data>>

\* write_text completes; get_data returns the versions
rss_get_data_written ==
    /\ Running /\ wpc = "rss_writing"
    /\ cache' = [cache EXCEPT !.rss = Snapshot(data.rss)]
    /\ data' = data
    /\ WorkerStep("docker")

docker_get_data_cache ==
    /\ Running /\ wpc = "docker"
    /\ IF TryCache("docker") /\ cache.docker.st = "ok"
       THEN data' = [data EXCEPT !.docker = cache.docker.data]
            /\ WorkerStep("electron")
       ELSE data' = data /\ WorkerStep("docker_fetch")
    /\ cache' = cache

\* the paginated requests; a failure on any page returns [], and an empty
\* list of versions is returned without being written
docker_get_data_fetch ==
    /\ Running /\ wpc = "docker_fetch"
    /\ \E r \in DockerResponses :
          IF r.ok /\ DockerNormalize(r.body) # <<>>
          THEN data' = [data EXCEPT !.docker = DockerNormalize(r.body)]
               /\ WorkerStep("docker_write")
          ELSE data' = [data EXCEPT !.docker = <<>>] /\ WorkerStep("electron")
    /\ cache' = cache

docker_get_data_write ==
    /\ Running /\ wpc = "docker_write"
    /\ \/ cache' = [cache EXCEPT !.docker = Partial] /\ data' = data
          /\ WorkerStep("docker_writing")
       \/ LoaderRaise(sENOSPC) /\ UNCHANGED <<cache, data>>

docker_get_data_written ==
    /\ Running /\ wpc = "docker_writing"
    /\ cache' = [cache EXCEPT !.docker = Snapshot(data.docker)]
    /\ data' = data
    /\ WorkerStep("electron")

\* ElectronSource.get_data up to the network request: only JSONDecodeError
\* is passed over, an OSError of read_text leaves get_data
electron_get_data_cache ==
    /\ Running /\ wpc = "electron"
    /\ IF TryCache("electron") /\ cache.electron.st = "ok"
       THEN data' = [data EXCEPT !.electron = cache.electron.data]
            /\ WorkerStep("deliver")
       ELSE IF TryCache("electron") /\ cache.electron.st = "unreadable"
       THEN data' = data /\ LoaderRaise(sEACCES)
       ELSE data' = data /\ WorkerStep("electron_fetch")
    /\ cache' = cache

electron_get_data_fetch ==
    /\ Running /\ wpc = "electron_fetch"
    /\ \E r \in ElectronResponses :
          IF r.ok
          THEN data' = [data EXCEPT !.electron = r.body]
               /\ WorkerStep("electron_write")
          ELSE data' = [data EXCEPT !.electron = <<>>] /\ WorkerStep("deliver")
    /\ cache' = cache

\* here write_text is inside the try: an OSError returns {}
electron_get_data_write ==
    /\ Running /\ wpc = "electron_write"
    /\ \/ cache' = [cache EXCEPT !.electron = Partial] /\ data' = data
          /\ WorkerStep("electron_writing")
       \/ cache' = cache /\ data' = [data EXCEPT !.electron = <<>>]
          /\ WorkerStep("deliver")

electron_get_data_written ==
    /\ Running /\ wpc = "electron_writing"
    /\ cache' = [cache EXCEPT !.electron = Snapshot(data.electron)]
    /\ data' = data
    /\ WorkerStep("deliver")

\* the process is killed while write_text has a snapshot open
crash ==
    /\ Running /\ wpc \in {"rss_writing", "docker_writing", "electron_writing"}
    /\ crashed' = TRUE
    /\ UNCHANGED <<force_refresh, cache, wpc, data, filter_vars, view_vars, exit_vars>>

(***************************************************************************)
(* The session: ObsiVerPicker's handlers                                   *)
(***************************************************************************)
\* update_mode_bar, reading the state the calling handler leaves
update_mode_bar ==
    mode_bar' = [shown |-> TRUE, is_s |-> search_visible', m |-> show_mobile',
                 e |-> show_early_access', q |-> search_query']

\* update_table, reading the state the calling handler leaves: nothing
\* happens before the data is loaded; table.clear() puts the cursor on row 0
update_table ==
    IF raw_data'.loaded
    THEN /\ table' = UpdateTableRows(raw_data', show_mobile', show_early_access',
                                     found_only', sort_by_priority', search_query')
         /\ cursor_row' = 0
         /\ update_mode_bar
    ELSE UNCHANGED <<table, cursor_row, mode_bar>>

Pop(stack) == SubSeq(stack, 1, Len(stack) - 1)

\* a faulty handle_data_loaded: the loading screen is not popped
handle_data_loaded_keeps_screen ==
    /\ raw_data' = [loaded |-> TRUE, rss |-> data.rss, docker |-> data.docker,
                    electron |-> data.electron]
    /\ screen_stack' = screen_stack
    /\ UNCHANGED <<filter_vars, search_visible, confirm, notice>>
    /\ update_table
    /\ focus' = "table"

\* the loader hands the data over: call_from_thread(handle_data_loaded, data)
\* runs the handler on the session's thread
handle_data_loaded ==
    /\ raw_data' = [loaded |-> TRUE, rss |-> data.rss, docker |-> data.docker,
                    electron |-> data.electron]
    /\ screen_stack' = IF screen_stack # <<>> THEN Pop(screen_stack) ELSE screen_stack
    /\ UNCHANGED <<filter_vars, search_visible, confirm, notice>>
    /\ update_table
    /\ focus' = "table"

\* the last statement of fetch_all_data's try block.  Once the session has
\* exited nothing receives the call: it is dropped, or it raises into the
\* handler of fetch_all_data
fetch_all_data_deliver ==
    /\ Running /\ wpc = "deliver"
    /\ IF ~exited
       THEN /\ handle_data_loaded
            /\ wpc' = "done"
            /\ UNCHANGED <<force_refresh, cache, data, crashed, exit_vars>>
       ELSE /\ \/ wpc' = "done" /\ UNCHANGED <<force_refresh, crashed, filter_vars,
                                               view_vars, exit_vars>>
               \/ LoaderRaise(sClosed)
            /\ UNCHANGED <<cache, data>>

\* which widget a key reaches: the bindings of the app while the loading
\* screen or the table has the focus, the Input while it has the focus, the
\* modal ConfirmScreen alone while it is open
Live == Running /\ ~exited
BindingsActive == Live /\ (Top = "loading" \/ (Top = "main" /\ focus = "table"))
TableFocused == Live /\ Top = "main" /\ focus = "table"
InputFocused == Live /\ Top = "main" /\ focus = "input"
Confirming == Live /\ Top = "confirm"

\* App.action_quit: self.exit()
action_quit ==
    /\ Exit(NoneValue)
    /\ UNCHANGED <<worker_vars, filter_vars, view_vars, caller>>

action_toggle_mobile ==
    /\ show_mobile' = ~show_mobile
    /\ UNCHANGED <<search_query, show_early_access, found_only, sort_by_priority>>
    /\ UNCHANGED <<screen_stack, raw_data, search_visible, focus, confirm, notice>>
    /\ update_table
    /\ UNCHANGED <<worker_vars, exit_vars>>

action_toggle_early ==
    /\ BindingsActive
    /\ show_early_access' = ~show_early_access
    /\ UNCHANGED <<search_query, show_mobile, found_only, sort_by_priority>>
    /\ UNCHANGED <<screen_stack, raw_data, search_visible, focus, confirm, notice>>
    /\ update_table
    /\ UNCHANGED <<worker_vars, exit_vars>>

\* a faulty action_toggle_found: the flag flips, an open table is not rebuilt
action_toggle_found_stale ==
    /\ BindingsActive
    /\ found_only' = ~found_only
    /\ UNCHANGED <<search_query, show_mobile, show_early_access, sort_by_priority>>
    /\ UNCHANGED <<screen_stack, raw_data, search_visible, focus, confirm, notice>>
    /\ UNCHANGED <<table, cursor_row, mode_bar>>
    /\ UNCHANGED <<worker_vars, exit_vars>>

action_toggle_found ==
    /\ BindingsActive
    /\ found_only' = ~found_only
    /\ UNCHANGED <<search_query, show_mobile, show_early_access, sort_by_priority>>
    /\ UNCHANGED <<screen_stack, raw_data, search_visible, focus, confirm, notice>>
    /\ update_table
    /\ UNCHANGED <<worker_vars, exit_vars>>

action_toggle_sort ==
    /\ BindingsActive
    /\ sort_by_priority' = ~sort_by_priority
    /\ UNCHANGED <<search_query, show_mobile, show_early_access, found_only>>
    /\ UNCHANGED <<screen_stack, raw_data, search_visible, focus, confirm, notice>>
    /\ update_table
    /\ UNCHANGED <<worker_vars, exit_vars>>

\* Input.Changed: typing or deleting in the search box
on_input_changed(value) ==
    /\ search_query' = value
    /\ UNCHANGED <<show_mobile, show_early_access, found_only, sort_by_priority>>
    /\ UNCHANGED <<screen_stack, raw_data, search_visible, focus, confirm, notice>>
    /\ update_table
    /\ UNCHANGED <<worker_vars, exit_vars>>

\* Input.Submitted: Enter in the search box
on_input_submitted ==
    /\ InputFocused
    /\ search_visible' = FALSE
    /\ focus' = "table"
    /\ UNCHANGED <<worker_vars, filter_vars, exit_vars>>
    /\ UNCHANGED <<screen_stack, raw_data, table, cursor_row, mode_bar, confirm, notice>>

action_toggle_search ==
    /\ TableFocused
    /\ search_visible' = TRUE
    /\ focus' = "input"
    /\ UNCHANGED <<worker_vars, filter_vars, exit_vars>>
    /\ update_mode_bar
    /\ UNCHANGED <<screen_stack, raw_data, table, cursor_row, confirm, notice>>

\* Escape on the main screen; setting the Input's value to "" runs
\* on_input_changed with the same result
action_cancel_search ==
    /\ search_visible' = FALSE
    /\ search_query' = <<>>
    /\ UNCHANGED <<show_mobile, show_early_access, found_only, sort_by_priority>>
    /\ UNCHANGED <<screen_stack, raw_data, confirm, notice>>
    /\ update_table
    /\ focus' = "table"
    /\ UNCHANGED <<worker_vars, exit_vars>>

RowCount == Len(table)

\* DataTable.action_cursor_down
action_cursor_down ==
    /\ TableFocused
    /\ cursor_row' = IF cursor_row + 1 < RowCount THEN cursor_row + 1 ELSE cursor_row
    /\ UNCHANGED <<worker_vars, filter_vars, exit_vars>>
    /\ UNCHANGED <<screen_stack, raw_data, search_visible, focus, table, mode_bar,
                   confirm, notice>>

\* DataTable.action_cursor_up
action_cursor_up ==
    /\ TableFocused
    /\ cursor_row' = IF cursor_row > 0 THEN cursor_row - 1 ELSE cursor_row
    /\ UNCHANGED <<worker_vars, filter_vars, exit_vars>>
    /\ UNCHANGED <<screen_stack, raw_data, search_visible, focus, table, mode_bar,
                   confirm, notice>>

\* " ".join(str(x).lower() for x in t.get_row_at(idx))
RowText(row) == JoinSpace([i \in 1..Len(row) |-> Lower(row[i])])

RowMatches(idx) == Contains(RowText(table[idx + 1]), Lower(search_query))

\* a faulty JumpTarget: the scan stops at the end of the table
JumpTarget_no_wrap(d) ==
    LET Idx(i) == cursor_row + i * d
        hits == {i \in 1..(RowCount - 1) :
                    Idx(i) >= 0 /\ Idx(i) < RowCount /\ RowMatches(Idx(i))}
    IN  IF hits = {} THEN cursor_row
        ELSE Idx(CHOOSE i \in hits : \A j \in hits : i <= j)

\* the row the loop of jump_to_match stops at, the cursor's when it ends
JumpTarget(d) ==
    LET Idx(i) == (cursor_row + i * d) % RowCount
        hits == {i \in 1..(RowCount - 1) : RowMatches(Idx(i))}
    IN  IF hits = {} THEN cursor_row
        ELSE Idx(CHOOSE i \in hits : \A j \in hits : i <= j)

jump_to_match(d) ==
    /\ TableFocused
    /\ cursor_row' = IF search_query = <<>> THEN cursor_row ELSE JumpTarget(d)
    /\ UNCHANGED <<worker_vars, filter_vars, exit_vars>>
    /\ UNCHANGED <<screen_stack, raw_data, search_visible, focus, table, mode_bar,
                   confirm, notice>>

action_next_match == jump_to_match(1)

action_prev_match == jump_to_match(0 - 1)

\* a faulty CursorVersion: the first row's version is read, not the cursor's
CursorVersion_first_row == Strip(table[1][2])

\* row[1].plain, stripped, of the row under the cursor
CursorVersion == Strip(table[cursor_row + 1][2])

\* a faulty action_submit: the ConfirmScreen is pushed before docker_map is
\* looked up, so that a row without a tag opens it too
action_submit_push_first ==
    /\ IF ~InDockerMap(raw_data.docker, CursorVersion)
       THEN /\ notice' = [severity |-> "error", v |-> CursorVersion]
            /\ screen_stack' = Append(screen_stack, "confirm")
            /\ confirm' = [open |-> TRUE, v_str |-> CursorVersion, tag |-> <<>>]
       ELSE /\ screen_stack' = Append(screen_stack, "confirm")
            /\ confirm' = [open |-> TRUE, v_str |-> CursorVersion,
                           tag |-> DockerMapGet(raw_data.docker, CursorVersion).tag]
            /\ notice' = notice
    /\ UNCHANGED <<worker_vars, filter_vars, exit_vars>>
    /\ UNCHANGED <<raw_data, search_visible, table, cursor_row, mode_bar>>

\* action_submit: a notice when docker_map has no such version, else the
\* ConfirmScreen is pushed with handle_confirm closed over v_str and docker_map
action_submit ==
    /\ IF ~InDockerMap(raw_data.docker, CursorVersion)
       THEN /\ notice' = [severity |-> "error", v |-> CursorVersion]
            /\ UNCHANGED <<screen_stack, confirm>>
       ELSE /\ screen_stack' = Append(screen_stack, "confirm")
            /\ confirm' = [open |-> TRUE, v_str |-> CursorVersion,
                           tag |-> DockerMapGet(raw_data.docker, CursorVersion).tag]
            /\ notice' = notice
    /\ UNCHANGED <<worker_vars, filter_vars, exit_vars>>
    /\ UNCHANGED <<raw_data, search_visible, table, cursor_row, mode_bar>>

\* DataTable.RowSelected for the row under the cursor: Enter on the focused
\* table, or a click on the row, which also gives the table the focus
on_data_table_row_selected ==
    /\ Live /\ Top = "main" /\ table # <<>>
    /\ focus' = "table"
    /\ action_submit

\* a faulty dismiss: "no" also closes the search box, as Escape does on the
\* main screen
dismiss_closes_search(choice) ==
    /\ Confirming
    /\ screen_stack' = Pop(screen_stack)
    /\ confirm' = NoConfirm
    /\ IF choice
       THEN Exit(DictValue(confirm.v_str, confirm.tag)) /\ search_visible' = search_visible
       ELSE UNCHANGED <<exited, return_value>> /\ search_visible' = FALSE
    /\ UNCHANGED <<worker_vars, filter_vars, caller>>
    /\ UNCHANGED <<raw_data, focus, table, cursor_row, mode_bar, notice>>

\* ModalScreen.dismiss(choice): the screen is popped, then handle_confirm runs
dismiss(choice) ==
    /\ Confirming
    /\ screen_stack' = Pop(screen_stack)
    /\ confirm' = NoConfirm
    /\ IF choice
       THEN Exit(DictValue(confirm.v_str, confirm.tag))
       ELSE UNCHANGED <<exited, return_value>>
    /\ UNCHANGED <<worker_vars, filter_vars, caller>>
    /\ UNCHANGED <<raw_data, search_visible, focus, table, cursor_row, mode_bar, notice>>

\* ConfirmScreen.on_button_pressed
on_button_pressed(id) == dismiss(id = "yes")

(***************************************************************************)
(* The keys, as the focus routes them                                      *)
(***************************************************************************)
CanType == InputFocused /\ Len(search_query) < MaxQuery

\* "q": Binding("q", "quit"); typed into the focused Input; not among the
\* keys of ConfirmScreen.on_key
binding_quit == BindingsActive /\ action_quit

key_q ==
    \/ binding_quit
    \/ CanType /\ on_input_changed(Append(search_query, "q"))
    \/ Confirming /\ UNCHANGED vars

\* "m": Binding("m", "toggle_mobile"); typed into the focused Input
key_m ==
    \/ BindingsActive /\ action_toggle_mobile
    \/ CanType /\ on_input_changed(Append(search_query, "m"))

key_backspace ==
    /\ InputFocused /\ search_query # <<>>
    /\ on_input_changed(SubSeq(search_query, 1, Len(search_query) - 1))

\* Enter: the table's row selection, the Input's submit, ConfirmScreen.on_key
key_enter ==
    \/ TableFocused /\ on_data_table_row_selected
    \/ on_input_submitted
    \/ dismiss(TRUE)

\* Escape: Binding("escape", "cancel_search"), ConfirmScreen.on_key
key_escape ==
    \/ Live /\ Top = "main" /\ action_cancel_search
    \/ dismiss(FALSE)

click_row == on_data_table_row_selected

click_button == \E id \in {"yes", "no"} : on_button_pressed(id)

(***************************************************************************)
(* The caller: interact in __main__.py                                     *)
(***************************************************************************)
\* a faulty Truthy: only a non-empty string counts as true
Truthy_str_only(r) == r.t = "str" /\ r.s # <<>>

\* Python's truth value of the result
Truthy(r) == r.t = "dict" \/ (r.t = "str" /\ r.s # <<>>)

\* the branch interact takes
Branch(r) ==
    IF ~Truthy(r) THEN "cancelled"
    ELSE IF r.t = "str" /\ StartsWith(r.s, sError) THEN "error"
    ELSE "selected"

\* run_tui returns App.return_value once the session has exited
interact ==
    /\ Running /\ exited /\ caller = "running"
    /\ caller' = Branch(return_value)
    /\ UNCHANGED <<worker_vars, filter_vars, view_vars, exited, return_value>>

Next ==
    \/ rss_get_data_cache
    \/ rss_get_data_fetch
    \/ rss_get_data_write
    \/ rss_get_data_written
    \/ docker_get_data_cache
    \/ docker_get_data_fetch
    \/ docker_get_data_write
    \/ docker_get_data_written
    \/ electron_get_data_cache
    \/ electron_get_data_fetch
    \/ electron_get_data_write
    \/ electron_get_data_written
    \/ fetch_all_data_deliver
    \/ crash
    \/ key_q
    \/ key_m
    \/ key_backspace
    \/ key_enter
    \/ key_escape
    \/ click_row
    \/ click_button
    \/ action_toggle_early
    \/ action_toggle_found
    \/ action_toggle_sort
    \/ action_toggle_search
    \/ action_cursor_down
    \/ action_cursor_up
    \/ action_next_match
    \/ action_prev_match
    \/ interact

Spec == Init /\ [][Next]_vars

\* the steps of the worker thread
\* the steps of the three adapters, in the order fetch_all_data calls them
get_data ==
    \/ rss_get_data_cache
    \/ rss_get_data_fetch
    \/ rss_get_data_write
    \/ rss_get_data_written
    \/ docker_get_data_cache
    \/ docker_get_data_fetch
    \/ docker_get_data_write
    \/ docker_get_data_written
    \/ electron_get_data_cache
    \/ electron_get_data_fetch
    \/ electron_get_data_write
    \/ electron_get_data_written

Worker ==
    \/ get_data
    \/ fetch_all_data_deliver

\* the loader under a user who presses no key but "q"
NextLoader ==
    \/ Worker
    \/ crash
    \/ binding_quit
    \/ interact

LoaderSpec == InitLoader /\ [][NextLoader]_vars

\* the hand-over is enabled exactly while the worker stands before it, so
\* weak fairness of fetch_all_data_deliver reads: the worker does not stand
\* before the hand-over forever
DeliverFair ==
    \/ []<>(wpc # "deliver" \/ crashed)
    \/ []<><<fetch_all_data_deliver>>_vars

\* the worker thread is scheduled as long as it has a step to take: every
\* request carries timeout=10 and no step waits for the session
FairLoaderSpec == LoaderSpec /\ WF_vars(get_data) /\ DeliverFair

\* what the three adapters return with force-refresh on, for every feed of
\* the pool and both tag listings
TableData ==
    {[rss |-> RssNormalize(f), docker |-> DockerNormalize(p), electron |-> EMapA] :
        f \in Feeds(MaxEntries), p \in {TagsA, TagsB}}

\* the worker stands before the hand-over, the snapshots written
InitTable ==
    /\ force_refresh = TRUE
    /\ data \in TableData
    /\ cache = [a \in Adapters |->
                   IF a = "docker" /\ data[a] = <<>> THEN Absent ELSE Snapshot(data[a])]
    /\ wpc = "deliver"
    /\ InitView

\* what is pasted into the search box: one Input.Changed with the whole value
PasteValues == {<<"1", ".", "2">>, <<"0", " ", "1">>, <<"M", "o", "b">>}

paste == \E value \in PasteValues : InputFocused /\ on_input_changed(value)

\* the table under the keys that filter, sort, search and move the cursor
NextTable ==
    \/ fetch_all_data_deliver
    \/ BindingsActive /\ action_toggle_mobile
    \/ action_toggle_early
    \/ action_toggle_found
    \/ action_toggle_sort
    \/ action_toggle_search
    \/ paste
    \/ on_input_submitted
    \/ Live /\ Top = "main" /\ action_cancel_search
    \/ action_cursor_down
    \/ action_cursor_up
    \/ action_next_match
    \/ action_prev_match
    \/ binding_quit
    \/ interact

TableSpec == InitTable /\ [][NextTable]_vars

\* the changelog answers with any feed of the pool
rss_get_data_fetch_pool ==
    rss_fetch({[ok |-> TRUE, body |-> f] : f \in Feeds(MaxEntries)})

\* a first run of the loader over every feed of the pool
NextFeed ==
    \/ rss_get_data_cache
    \/ rss_get_data_fetch_pool
    \/ rss_get_data_write
    \/ rss_get_data_written
    \/ docker_get_data_cache
    \/ docker_get_data_fetch
    \/ docker_get_data_write
    \/ docker_get_data_written
    \/ electron_get_data_cache
    \/ electron_get_data_fetch
    \/ electron_get_data_write
    \/ electron_get_data_written
    \/ fetch_all_data_deliver
    \/ binding_quit
    \/ interact

InitFeed ==
    /\ force_refresh \in BOOLEAN
    /\ cache = [a \in Adapters |-> Absent]
    /\ InitSession

FeedSpec == InitFeed /\ [][NextFeed]_vars

\* version strings of two and three components, of one and two digits
VersionPool ==
    {<<"1", ".", "2">>, v120, <<"1", ".", "2", ".", "1">>,
     <<"9", ".", "9", ".", "9">>, <<"9", ".", "1", "0", ".", "0">>,
     <<"1", "0", ".", "0", ".", "0">>}

\* a record of rss_versions.json
SnapshotRecord(v) ==
    [version |-> v, type |-> sDesktop, date |-> dMar, electron |-> sDefaultElectron,
     title |-> v \o <<" ">> \o sDesktop]

\* a run served from the snapshots, the changelog snapshot holding two records
\* with versions of the pool; json.loads returns whatever the file holds
InitSortKey ==
    /\ force_refresh = FALSE
    /\ \E a, b \in VersionPool :
          cache = [rss |-> Snapshot(<<SnapshotRecord(a), SnapshotRecord(b)>>),
                   docker |-> Snapshot(CachedData.docker),
                   electron |-> Snapshot(EMapA)]
    /\ InitSession

NextSortKey ==
    \/ rss_get_data_cache
    \/ docker_get_data_cache
    \/ electron_get_data_cache
    \/ fetch_all_data_deliver
    \/ action_toggle_sort
    \/ binding_quit
    \/ interact

SortKeySpec == InitSortKey /\ [][NextSortKey]_vars

(***************************************************************************)
(* Properties                                                              *)
(***************************************************************************)
\* the row under the cursor, and whether the registry holds a tag for it
CursorRow == table[cursor_row + 1]

RowHasTag(row) == \E i \in 1..Len(raw_data.docker) : raw_data.docker[i].version = row[2]

SelectionOfCursorRow ==
    /\ table # <<>>
    /\ return_value.version = CursorRow[2]
    /\ \E i \in 1..Len(raw_data.docker) :
          /\ raw_data.docker[i].tag = return_value.tag
          /\ raw_data.docker[i].version = return_value.version
    /\ CleanVersion(return_value.tag) = return_value.version

\* C2: in Confirming, "yes" (the button or Enter) ends the session with the
\* selection of the row that was under the cursor at the submit and of a
\* registry tag whose normalised version is that row's; the result becomes a
\* selection by no other step.
C2_YesReturnsSelection ==
    /\ [](return_value.t = "dict" => SelectionOfCursorRow)
    /\ [][(Mode = "Confirming" /\ (key_enter \/ on_button_pressed("yes")))
          => (Mode' = "Done" /\ return_value'.t = "dict")]_vars
    /\ [][(return_value'.t = "dict" /\ return_value # return_value')
          => (Mode = "Confirming" /\ (key_enter \/ on_button_pressed("yes")))]_vars
    /\ [][Mode' = "Confirming"
          => (UNCHANGED <<table, cursor_row, raw_data>>
              /\ confirm'.v_str = CursorRow[2])]_vars

\* the session ended with a selection made on a row below the first one
C2_Witness ==
    /\ Mode = "Done"
    /\ return_value.t = "dict"
    /\ cursor_row > 0
    /\ return_value.tag # return_value.version

\* C3: "no" (the button or Escape) in Confirming leaves the session running
\* in the mode the submit came from -- Searching if the search box is shown,
\* else Browsing -- with the filter flags, the sort mode, the query, the cursor
\* and the rows as they were at the submit: the submit and every step taken
\* while the ConfirmScreen is open keep them, and so does "no".
C3_NoReturnsUnchanged ==
    /\ [][Mode' = "Confirming"
          => /\ Mode \in {"Browsing", "Searching", "Confirming"}
             /\ UNCHANGED <<filter_vars, cursor_row, table, search_visible>>]_vars
    /\ [][(Mode = "Confirming" /\ (key_escape \/ on_button_pressed("no")))
          => /\ Mode' = (IF search_visible THEN "Searching" ELSE "Browsing")
             /\ ~exited'
             /\ UNCHANGED <<filter_vars, cursor_row, table, search_visible>>]_vars

\* a ConfirmScreen opened from Searching, over a list narrowed by a query
\* and sorted by version alone
C3_Witness ==
    /\ Mode = "Confirming"
    /\ search_visible
    /\ search_query # <<>>
    /\ ~sort_by_priority

\* the outcome a result stands for
Outcome(r) ==
    IF r.t = "dict" THEN "selected" ELSE IF r.t = "str" THEN "error" ELSE "cancelled"

\* C4: the result of an ended session is a selection with a version and a tag,
\* None, or a string that starts with "Error: ", and interact takes the branch
\* of that outcome.
C4_OutcomesDistinguished ==
    /\ [](exited =>
            \/ return_value = NoneValue
            \/ /\ return_value.t = "str"
               /\ StartsWith(return_value.s, sErrorColon)
            \/ /\ return_value.t = "dict"
               /\ return_value.version # <<>> /\ return_value.tag # <<>>)
    /\ [][interact => caller' = Outcome(return_value)]_vars
    /\ [](caller # "running" => exited)

\* interact has branched on a selection
C4_Witness == caller = "selected" /\ return_value.t = "dict"

\* the session leaves Loading in this step
LeavesLoading == Mode = "Loading" /\ Mode' # "Loading"

\* C5 as stated: the session leaves Loading through a step of the loader only.
C5_LeavesLoadingByLoaderOnly == [][LeavesLoading => Worker]_vars

\* C5, amended: the session leaves Loading through a step of the loader or
\* through the user's quit; it enters Browsing in the step in which the worker
\* hands over the results of the three adapters, which become raw_data; when
\* the worker ends short of the hand-over the session is in Done with a string
\* that starts with "Error: "; and with the worker scheduled fairly the session
\* leaves Loading, unless the process is killed during a snapshot write.
C5_LeavesLoading ==
    /\ [][LeavesLoading => (Worker \/ binding_quit)]_vars
    /\ [][(LeavesLoading /\ Mode' = "Browsing")
          => /\ wpc = "deliver" /\ wpc' = "done"
             /\ raw_data' = [loaded |-> TRUE, rss |-> data.rss,
                             docker |-> data.docker, electron |-> data.electron]]_vars
    /\ [](Mode \in {"Browsing", "Searching", "Confirming"}
          => raw_data.loaded /\ wpc = "done")
    /\ [][(wpc # "deliver" /\ wpc # "done" /\ wpc' = "done")
          => /\ Mode' = "Done"
             /\ return_value'.t = "str"
             /\ StartsWith(return_value'.s, sErrorColon)]_vars
    /\ <>(Mode # "Loading" \/ crashed)

\* the loader has delivered and the session browses the rows
C5_Witness == Mode = "Browsing" /\ wpc = "done" /\ raw_data.loaded /\ table # <<>>

\* C6: the quit key ends the session, cancelled, from whatever mode it is
\* pressed in.
C6_QuitEndsSession ==
    [][key_q => (Mode' = "Done" /\ return_value' = NoneValue)]_vars

\* both the changelog and the registry adapter have returned
AfterDocker ==
    wpc \in {"electron", "electron_fetch", "electron_write", "electron_writing",
             "deliver"}

RowsWithoutRegistry ==
    \A i \in 1..Len(table) :
        table[i][5] = (IF table[i][3] = sDesktop THEN sMissing ELSE sNA)

\* C7: once the registry adapter has returned nothing and the changelog adapter
\* at least one record, the session, while it loads, does not end in an error,
\* and in Browsing every Desktop row is Missing and every Mobile row is N/A.
C7_EmptyRegistryStillBrowses ==
    /\ [][(AfterDocker /\ ~exited /\ data.docker = <<>> /\ data.rss # <<>>)
          => ~(exited' /\ return_value'.t = "str")]_vars
    /\ []((raw_data.loaded /\ raw_data.docker = <<>> /\ raw_data.rss # <<>>)
          => RowsWithoutRegistry)

\* C8: when all three sources are empty the session ends in Done with an
\* error; it does not stay on the table with no rows.
C8_NoDataIsAnError ==
    (/\ raw_data.loaded
     /\ raw_data.rss = <<>> /\ raw_data.docker = <<>> /\ raw_data.electron = <<>>)
    => (Mode = "Done" /\ return_value.t = "str")

FetchPc(a) ==
    IF a = "rss" THEN "rss_fetch"
    ELSE IF a = "docker" THEN "docker_fetch" ELSE "electron_fetch"

\* C9: with force-refresh off, an adapter that finds its snapshot corrupt or
\* unreadable goes on to its network request, and the session's outcome is
\* untouched.
C9_DamagedSnapshotIsAMiss ==
    [][\A a \in Adapters :
          (/\ wpc = a /\ wpc' # a
           /\ ~force_refresh
           /\ cache[a].st \in {"corrupt", "unreadable"})
          => (wpc' = FetchPc(a) /\ UNCHANGED <<exit_vars, cache, data>>)]_vars

\* C10: after a crash no snapshot is left cut short.
C10_SnapshotWriteAtomic ==
    crashed => \A a \in Adapters : cache[a].st # "partial"

WritePcs(a) ==
    IF a = "rss" THEN {"rss_write", "rss_writing"}
    ELSE IF a = "docker" THEN {"docker_write", "docker_writing"}
    ELSE {"electron_write", "electron_writing"}

\* where fetch_all_data goes on once the adapter has returned
ReturnPc(a) ==
    IF a = "rss" THEN "docker" ELSE IF a = "docker" THEN "electron" ELSE "deliver"

\* C11: a snapshot changes only in the write of its own adapter; a request
\* that fails or whose body yields nothing makes the adapter return the empty
\* result at once, the snapshots untouched; a call served from the snapshot
\* returns with the snapshots untouched.
C11_SnapshotWrittenOnSuccessOnly ==
    [][\A a \in Adapters :
          /\ cache'[a] # cache[a] => wpc \in WritePcs(a)
          /\ (wpc = FetchPc(a) /\ wpc' # wpc /\ data'[a] = <<>>)
             => (wpc' = ReturnPc(a) /\ cache' = cache)
          /\ (wpc = a /\ wpc' = ReturnPc(a)) => cache' = cache]_vars

\* some record of the registry adapter carries the version of the row
Tagged(row) == \E k \in 1..Len(raw_data.docker) : raw_data.docker[k].version = row[2]

\* C12: a displayed row reads Found exactly when it is a Desktop row whose
\* version some tag record carries, Missing exactly when it is a Desktop row
\* whose version none carries, and N/A when it is a Mobile row, tag or not.
C12_Availability ==
    raw_data.loaded =>
        \A i \in 1..Len(table) :
            /\ table[i][5] = sFound <=> (table[i][3] = sDesktop /\ Tagged(table[i]))
            /\ table[i][5] = sMissing <=> (table[i][3] = sDesktop /\ ~Tagged(table[i]))
            /\ table[i][3] = sMobile => table[i][5] = sNA

\* a Found row, a Missing row and a Mobile row whose version has a tag
C12_Witness ==
    /\ raw_data.loaded
    /\ \E i, j, k \in 1..Len(table) :
          /\ table[i][5] = sFound
          /\ table[j][5] = sMissing
          /\ table[k][3] = sMobile /\ Tagged(table[k]) /\ table[k][5] = sNA

\* C13: no two displayed rows have the same version and platform.
C13_OneRowPerKey ==
    \A i, j \in 1..Len(table) :
        (table[i][2] = table[j][2] /\ table[i][3] = table[j][3]) => i = j

\* the changelog holds two records of one key, and one row of that key is shown
C13_Witness ==
    /\ raw_data.loaded
    /\ \E a, b \in 1..Len(raw_data.rss) :
          /\ a # b
          /\ raw_data.rss[a].version = raw_data.rss[b].version
          /\ raw_data.rss[a].type = raw_data.rss[b].type
          /\ raw_data.rss[a].title # raw_data.rss[b].title
          /\ \E i \in 1..Len(table) :
                /\ table[i][2] = raw_data.rss[a].version
                /\ table[i][3] = raw_data.rss[a].type

\* the integer components of a version, padded with zeros to n components
Components(v, n) ==
    LET parts == FindAllInts(v)
    IN  [k \in 1..n |-> IF k <= Len(parts) THEN parts[k] ELSE 0]

\* numeric order of versions: component by component, the shorter one padded
VersionLess(a, b) ==
    LET la == Len(FindAllInts(a))
        lb == Len(FindAllInts(b))
        n == IF la < lb THEN lb ELSE la
        x == Components(a, n)
        y == Components(b, n)
    IN  \E k \in 1..n : x[k] < y[k] /\ \A j \in 1..(k - 1) : x[j] = y[j]

\* the engine version the entry of this title states itself, if any
StatedEngine(title) ==
    SearchElectron((CHOOSE e \in EntryPool : e.title = title).content)

\* C14: in the list the changelog adapter returns, versions do not increase
\* from one record to the next; a record whose entry states an engine version
\* has it; any other record has the engine version of the record behind it
\* (its predecessor in ascending order), the last one has "13.0.0"; and no
\* record is without an engine version.
C14_Backfill ==
    wpc \notin {"rss", "rss_fetch"} =>
        \A i \in 1..Len(data.rss) :
            /\ i < Len(data.rss)
               => ~VersionLess(data.rss[i].version, data.rss[i + 1].version)
            /\ data.rss[i].electron # <<>>
            /\ data.rss[i].electron =
                  IF StatedEngine(data.rss[i].title) # <<>>
                  THEN StatedEngine(data.rss[i].title)
                  ELSE IF i < Len(data.rss) THEN data.rss[i + 1].electron
                  ELSE sDefaultElectron

\* a record without a stated engine version lies between two that state
\* different ones and has inherited the older one; an oldest record without
\* one has the default
C14_Witness ==
    /\ wpc = "rss_write"
    /\ Len(data.rss) = 3
    /\ StatedEngine(data.rss[1].title) = sE25
    /\ StatedEngine(data.rss[2].title) = <<>>
    /\ data.rss[2].electron = sE20
    /\ StatedEngine(data.rss[3].title) = sE20

\* C15: two rows of the same group are displayed with the numerically
\* greater version first, a shorter version counting as padded with zeros; two
\* versions that are equal that way ("1.2" and "1.2.0") compare equal, so that
\* the stable sort leaves them in the order of the changelog.
C15_VersionOrder ==
    (/\ raw_data.loaded /\ Len(table) = 2
     /\ (sort_by_priority => table[1][5] = table[2][5])) =>
        /\ ~VersionLess(table[1][2], table[2][2])
        /\ ~VersionLess(table[2][2], table[1][2])
           => table[1][2] = raw_data.rss[1].version

\* the group of a displayed row: Found, then Mobile, then the others
Group(row) == IF row[5] = sFound THEN 0 ELSE IF row[3] = sMobile THEN 1 ELSE 2

\* C16: with the priority sort on, no row stands before a row of a lower
\* group, and within a group no version is followed by a numerically greater
\* one; with it off, no version is followed by a greater one anywhere.
C16_SortedByMode ==
    \A i, j \in 1..Len(table) :
        i < j =>
            IF sort_by_priority
            THEN /\ Group(table[i]) <= Group(table[j])
                 /\ Group(table[i]) = Group(table[j])
                    => ~VersionLess(table[i][2], table[j][2])
            ELSE ~VersionLess(table[i][2], table[j][2])

\* the changelog records that make a row: the first of each (version, platform)
FirstOfKey(k) ==
    \A j \in 1..(k - 1) :
        ~ (/\ raw_data.rss[j].version = raw_data.rss[k].version
           /\ raw_data.rss[j].type = raw_data.rss[k].type)

\* a row of this record's version and platform is displayed
KeyDisplayed(rec) ==
    \E i \in 1..Len(table) : table[i][2] = rec.version /\ table[i][3] = rec.type

\* one of the four exclusion conditions holds for the row of this record
Excluded(rec) ==
    \/ ~show_mobile /\ rec.type = sMobile
    \/ ~show_early_access /\ IsEarly(rec)
    \/ found_only /\ Stat(raw_data, rec) # sFound
    \/ /\ search_query # <<>>
       /\ ~Contains(SearchableText(raw_data, rec), Lower(search_query))

\* C17: the row of a (version, platform), made of the first changelog record
\* of that key, is displayed exactly when none of the four exclusion
\* conditions holds for it.
C17_DisplayedIffNotExcluded ==
    raw_data.loaded =>
        \A k \in 1..Len(raw_data.rss) :
            FirstOfKey(k)
            => (KeyDisplayed(raw_data.rss[k]) <=> ~Excluded(raw_data.rss[k]))

\* C18: whatever the keys pressed so far and their order, the displayed rows
\* are those that the loaded data and the present values of the four flags and
\* of the query determine.
C18_RowsFunctionOfState ==
    raw_data.loaded =>
        table = UpdateTableRows(raw_data, show_mobile, show_early_access, found_only,
                                sort_by_priority, search_query)

\* Mobile rows hidden and found-only on, reached by the two toggles in either
\* order, with rows left to display
C18_Witness ==
    /\ raw_data.loaded /\ ~show_mobile /\ found_only /\ table # <<>>
    /\ Len(raw_data.rss) > Len(table)

\* how many rows the scan passes to come from the cursor to row i in direction
\* d, going round the table; the cursor's own row comes last
Steps(i, d) ==
    IF i = cursor_row THEN Len(table) ELSE ((i - cursor_row) * d) % Len(table)

\* the row 'next match' (d = 1) or 'prev match' (d = -1) is to go to
Destination(d) ==
    LET matching == {i \in 0..(Len(table) - 1) : RowMatches(i)}
    IN  IF search_query = <<>> \/ matching = {} THEN cursor_row
        ELSE CHOOSE i \in matching : \A j \in matching : Steps(i, d) <= Steps(j, d)

\* C19: with the table focused, where 'next match' and 'prev match' take the
\* cursor is the nearest row in their direction, going round the table, whose
\* rendered text contains the query; the cursor's own row if no other row
\* matches; and the cursor's row if the query is empty or nothing matches.
C19_JumpToMatch ==
    /\ [](TableFocused
          => \A d \in {1, 0 - 1} :
                (IF search_query = <<>> THEN cursor_row ELSE JumpTarget(d))
                = Destination(d))
    /\ [][action_next_match => cursor_row' = Destination(1)]_vars
    /\ [][action_prev_match => cursor_row' = Destination(0 - 1)]_vars

\* three rows of which only the first matches, the cursor on the last: 'next
\* match' has to go round the end of the table
C19_Witness ==
    /\ TableFocused /\ search_query # <<>>
    /\ Len(table) = 3 /\ cursor_row = 2
    /\ RowMatches(0) /\ ~RowMatches(1) /\ ~RowMatches(2)

\* the rows the filter flags and the sort mode alone determine
RowsWithoutQuery(rd, mobile, early, found, priority) ==
    UpdateTableRows(rd, mobile, early, found, priority, <<>>)

\* C20: every step from Searching back to Browsing clears the query and
\* restores the rows that no query filters.
C20_LeavingSearchClearsQuery ==
    [][(Mode = "Searching" /\ Mode' = "Browsing") =>
          /\ search_query' = <<>>
          /\ raw_data'.loaded =>
                table' = RowsWithoutQuery(raw_data', show_mobile', show_early_access',
                                          found_only', sort_by_priority')]_vars

\* the user has quit while the loading screen was up, and the outcome is still
\* the cancellation
QuitInLoading == exited /\ Top = "loading" /\ return_value = NoneValue

\* C21: once the user has quit in Loading the outcome is the cancellation and
\* stays it: whatever the loader delivers afterwards changes neither the
\* outcome nor the screen nor the session's data, and the caller takes the
\* branch of the cancellation.
C21_LateDeliveryDiscarded ==
    [][QuitInLoading =>
          /\ QuitInLoading'
          /\ raw_data' = raw_data
          /\ caller' \in {"running", "cancelled"}]_vars

\* C22: in Searching, with the cursor on a row that has a registry tag, the
\* submit key (Enter) opens the confirmation for that row, as it does in
\* Browsing.
C22_SubmitInSearchingConfirms ==
    [][(/\ key_enter
        /\ Mode \in {"Browsing", "Searching"}
        /\ table # <<>> /\ RowHasTag(CursorRow))
       => /\ Mode' = "Confirming"
          /\ confirm'.open /\ confirm'.v_str = CursorRow[2]]_vars

\* the changelog deduplicated by (version, platform), the first occurrence kept
RECURSIVE Deduplicated(_, _)
Deduplicated(rest, seen) ==
    IF rest = <<>> THEN <<>>
    ELSE LET key == <<Head(rest).version, Head(rest).type>> IN
         IF key \in seen THEN Deduplicated(Tail(rest), seen)
         ELSE <<Head(rest)>> \o Deduplicated(Tail(rest), seen \cup {key})

\* C23: the displayed rows are the filter, the query and the sort applied to
\* the changelog already deduplicated by (version, platform): a key whose
\* first record is excluded is not displayed through a later record.
C23_FilterAfterDedup ==
    raw_data.loaded =>
        table = UpdateTableRows([raw_data EXCEPT !.rss = Deduplicated(raw_data.rss, {})],
                                show_mobile, show_early_access, found_only,
                                sort_by_priority, search_query)

\* C24: the confirmation opens only for a row whose availability is Found; a
\* submit on any other row, a Mobile row whose version the registry holds
\* included, opens nothing and ends in no selection.
C24_ConfirmOnlyFound ==
    /\ [][(on_data_table_row_selected /\ CursorRow[5] # sFound)
          => /\ confirm' = confirm
             /\ screen_stack' = screen_stack
             /\ UNCHANGED exit_vars]_vars
    /\ [](confirm.open => \E i \in 1..Len(table) :
                             table[i][2] = confirm.v_str /\ table[i][5] = sFound
                             /\ i = cursor_row + 1)

====
